---- MODULE Spec2Model ----
(***************************************************************************)
(* Model of the Rox Voices TTS gateway (backend/server.js): the WAV        *)
(* container encoder, the per-user quota records kept in the in-memory     *)
(* `database`, the Supabase `profiles` table and the asynchronous request  *)
(* handlers that interleave at their `await` points.                       *)
(***************************************************************************)
EXTENDS Integers, Sequences, FiniteSets, Bags, TLC

\* ------------------------------------------------------------------------
\* Bounds of the model
\* ------------------------------------------------------------------------
MaxProjects == 2   \* project ids that can be created in one run
MaxPcmLen == 3     \* longest PCM payload enumerated for the encoder
MaxDays == 1       \* reference-day boundaries the clock may cross
MaxInFlight == 2   \* request handlers in flight at the same time
MaxRequests == 3   \* requests the server receives in one run

\* ------------------------------------------------------------------------
\* AudioContainerEncoder: createWavHeader and the wav assembly
\* ------------------------------------------------------------------------
\* A byte buffer is a sequence; byte offset o of the code is index o + 1.
ArrayBuffer(n) == [i \in 1..n |-> 0]

HeaderSize == 44

setUint8(view, offset, value) ==
  [view EXCEPT ![offset + 1] = value % 256]

\* DataView.setUint16(offset, value, littleEndian = true)
setUint16(view, offset, value) ==
  [view EXCEPT ![offset + 1] = value % 256,
               ![offset + 2] = (value \div 256) % 256]

\* DataView.setUint32(offset, value, littleEndian = true); taking each byte
\* modulo 256 is the truncation of value to 32 bits.
setUint32(view, offset, value) ==
  [view EXCEPT ![offset + 1] = value % 256,
               ![offset + 2] = (value \div 256) % 256,
               ![offset + 3] = (value \div 65536) % 256,
               ![offset + 4] = (value \div 16777216) % 256]

\* Strings are sequences of char codes (string.charCodeAt(i)).
RIFF == <<82, 73, 70, 70>>
WAVE == <<87, 65, 86, 69>>
FMT_ == <<102, 109, 116, 32>>
DATA == <<100, 97, 116, 97>>

RECURSIVE writeStringFrom(_, _, _, _)
writeStringFrom(view, offset, string, i) ==
  IF i > Len(string) THEN view
  ELSE writeStringFrom(setUint8(view, offset + (i - 1), string[i]),
                       offset, string, i + 1)

writeString(view, offset, string) == writeStringFrom(view, offset, string, 1)

\* 0x45564157, the constant of the extra write at offset 12
WaveMagic == 1163280727

\* The writes of createWavHeader that follow the RIFF/size/WAVE prefix, in
\* program order (server.js:55-63).
WavFormatAndData(view, dataSize) ==
  LET v16 == setUint32(view, 16, 16)
      v20 == setUint16(v16, 20, 1)
      v22 == setUint16(v20, 22, 1)
      v24 == setUint32(v22, 24, 24000)
      v28 == setUint32(v24, 28, 48000)
      v32 == setUint16(v28, 32, 2)
      v34 == setUint16(v32, 34, 16)
      v36 == writeString(v34, 36, DATA)
  IN  setUint32(v36, 40, dataSize)

WavPrefix(dataSize) ==
  LET v0 == writeString(ArrayBuffer(HeaderSize), 0, RIFF)
      v4 == setUint32(v0, 4, 36 + dataSize)
  IN  writeString(v4, 8, WAVE)

\* A build in which the two writes at offset 12 are swapped.
createWavHeaderSwapped(dataSize) ==
  LET v12a == writeString(WavPrefix(dataSize), 12, FMT_)
      v12b == setUint32(v12a, 12, WaveMagic)
  IN  WavFormatAndData(v12b, dataSize)

\* createWavHeader of the Supabase-backed server
createWavHeader(dataSize) ==
  LET v12a == setUint32(WavPrefix(dataSize), 12, WaveMagic)
      v12b == writeString(v12a, 12, FMT_)
  IN  WavFormatAndData(v12b, dataSize)

\* createWavHeader of the in-memory server (no write of WaveMagic)
createWavHeaderInMemory(dataSize) ==
  WavFormatAndData(writeString(WavPrefix(dataSize), 12, FMT_), dataSize)

\* Base64 text is a sequence of digit values 0..63; Pad is the '=' sign.
Pad == 64

Sextet(b64, i) == IF b64[i] = Pad THEN 0 ELSE b64[i]

PadCount(b64) ==
  IF Len(b64) = 0 THEN 0
  ELSE IF b64[Len(b64)] # Pad THEN 0
  ELSE IF b64[Len(b64) - 1] # Pad THEN 1 ELSE 2

\* atob followed by the charCodeAt loop: base64 text to bytes
atob(b64) ==
  LET n == 3 * (Len(b64) \div 4) - PadCount(b64)
  IN  [j \in 1..n |->
        LET g == 4 * ((j - 1) \div 3)
            k == (j - 1) % 3
        IN  IF k = 0 THEN Sextet(b64, g + 1) * 4 + Sextet(b64, g + 2) \div 16
            ELSE IF k = 1
              THEN (Sextet(b64, g + 2) % 16) * 16 + Sextet(b64, g + 3) \div 4
            ELSE (Sextet(b64, g + 3) % 4) * 64 + Sextet(b64, g + 4)]

\* btoa(String.fromCharCode(...bytes)): bytes to base64 text
btoa(bytes) ==
  LET n == Len(bytes)
      B(i) == IF i <= n THEN bytes[i] ELSE 0
  IN  [j \in 1..(4 * ((n + 2) \div 3)) |->
        LET g == 3 * ((j - 1) \div 4)
            k == (j - 1) % 4
        IN  IF k = 0 THEN B(g + 1) \div 4
            ELSE IF k = 1 THEN (B(g + 1) % 4) * 16 + B(g + 2) \div 16
            ELSE IF k = 2
              THEN IF g + 2 > n THEN Pad
                   ELSE (B(g + 2) % 16) * 4 + B(g + 3) \div 64
            ELSE IF g + 3 > n THEN Pad ELSE B(g + 3) % 64]

\* A build whose assembly copies the payload over the end of the header.
WavFileOverlap(base64Audio) ==
  LET binaryAudio == atob(base64Audio)
      wavHeader == createWavHeader(Len(binaryAudio))
  IN  SubSeq(wavHeader, 1, HeaderSize - 1) \o binaryAudio

\* The wav assembly of /generate-tts: decode, header, header ++ payload
WavFile(base64Audio) ==
  LET binaryAudio == atob(base64Audio)
      wavHeader == createWavHeader(Len(binaryAudio))
  IN  wavHeader \o binaryAudio


\* ------------------------------------------------------------------------
\* Principals, plans, clock
\* ------------------------------------------------------------------------
Users == {"u1", "u2"}
PreviewUser == "preview_user_id"

\* The value of a lookup that finds nothing (JavaScript undefined)
Undefined == -1

\* The value of a lookup that finds a member PLAN_LIMITS inherits from
\* Object.prototype (a function such as PLAN_LIMITS['constructor']): it is
\* truthy and no number.
Inherited == -2

\* The value is a number: a comparison with undefined or with a function
\* is false whatever the other side.
IsNumber(value) == value >= 0

\* The own keys of PLAN_LIMITS
PlanNames == {"free", "starter", "vip", "vvip", "exclusive"}

PLAN_LIMITS(plan) ==
  CASE plan = "free" -> 700
    [] plan = "starter" -> 50000
    [] plan = "vip" -> 200000
    [] plan = "vvip" -> 1500000
    [] plan = "exclusive" -> 5000000
    [] plan = "constructor" -> Inherited
    [] OTHER -> Undefined

\* The clock counts ticks of two hours of UTC; Africa/Lusaka is UTC+2.
TicksPerDay == 12
CATOffset == 1

VARIABLES
  now,          \* the wall clock (new Date()), in ticks
  limited,      \* the credentials the provider currently rate-limits
  profiles,     \* Supabase table profiles: id -> [subscription, chars_used]
  users,        \* database.users: userId -> usage record
  ttsProjects,  \* database.ttsProjects: projectId -> project
  nextId,       \* number of project ids handed out so far
  reqs,         \* the bag of request handlers in flight
  served,       \* number of requests received so far
  enc           \* the encoder under test: input and output

vars == <<now, limited, profiles, users, ttsProjects, nextId, reqs, served,
          enc>>

\* new Date(now.toLocaleString('en-US', { timeZone: 'Africa/Lusaka' }))
nowInCAT == now + CATOffset

\* Date.setHours(0, 0, 0, 0)
setHours0(t) == (t \div TicksPerDay) * TicksPerDay

\* Date.toDateString(): the calendar date of a wall-clock value
toDateString(t) == t \div TicksPerDay

\* A build that compares the UTC date instead of the reference-zone date.
IsNewDayUTC(dailyLimitResetTime) ==
  toDateString(now) # toDateString(dailyLimitResetTime)

\* nowInCAT.toDateString() !== resetDateCAT.toDateString()
IsNewDay(dailyLimitResetTime) ==
  toDateString(nowInCAT) # toDateString(dailyLimitResetTime)

\* getUserData: the new contents of database.users after the call
getUserData(db, userId, persistentSubscription, persistentCharsUsed) ==
  LET fresh == [dailyCharsUsed |-> 0,
                dailyLimitResetTime |-> setHours0(nowInCAT),
                currentDailyLimit |-> PLAN_LIMITS(persistentSubscription),
                subscription |-> persistentSubscription,
                history |-> <<>>,
                charsUsed |-> persistentCharsUsed]
      userData == IF userId \in DOMAIN db THEN db[userId] ELSE fresh
      synced == [userData EXCEPT !.subscription = persistentSubscription,
                                 !.charsUsed = persistentCharsUsed]
      rolled == IF IsNewDay(synced.dailyLimitResetTime)
                THEN [synced EXCEPT !.dailyCharsUsed = 0,
                                    !.dailyLimitResetTime = setHours0(nowInCAT)]
                ELSE synced
      final == [rolled EXCEPT
                  !.currentDailyLimit = PLAN_LIMITS(rolled.subscription)]
  IN  [id \in DOMAIN db \cup {userId} |->
         IF id = userId THEN final ELSE db[id]]

\* profileData?.subscription || 'free' and profileData?.chars_used || 0
persistentSubscription(userId) ==
  IF userId \in DOMAIN profiles THEN profiles[userId].subscription ELSE "free"

persistentCharsUsed(userId) ==
  IF userId \in DOMAIN profiles THEN profiles[userId].chars_used ELSE 0

\* supabase.from('profiles').update({ chars_used }).eq('id', userId): a
\* missing row matches nothing and is no error.
UpdateCharsUsed(table, userId, value) ==
  IF userId \in DOMAIN table
  THEN [table EXCEPT ![userId].chars_used = value]
  ELSE table


\* ------------------------------------------------------------------------
\* Upstream provider and its credentials
\* ------------------------------------------------------------------------
\* The credentials the operator holds, in order. The server reads one of
\* them, API_KEY, at start-up and binds its only client `ai` to it.
Pool == <<"A", "B", "C">>
API_KEY == Pool[1]

Range(seq) == {seq[i] : i \in DOMAIN seq}

\* Which credentials the provider throttles: none, all but the last, all.
LimitedCases ==
  {{}, Range(Pool) \ {Pool[Len(Pool)]}, Range(Pool)}

\* The audio payloads the provider may return (raw PCM, sent as base64)
PcmSamples == {<<0, 255, 16>>}

\* What ai.models.generateContent can do with a credential: throw a
\* rate-limit error, throw another error, answer without audio, answer.
UpstreamOutcomes(credential) ==
  IF credential \in limited THEN {"ratelimit"}
  ELSE {"ok", "other", "noaudio"}

\* ------------------------------------------------------------------------
\* Request handlers
\* ------------------------------------------------------------------------
\* Request bodies <<text.length, textLength>>: the declared length is not
\* validated, it may differ from the length of the text and be negative.
Bodies == {<<650, 650>>, <<50, 50>>, <<50, 100>>, <<50, -100>>}

NewReq(kind, userId) ==
  [kind |-> kind, pc |-> "start", userId |-> userId, textLen |-> 0,
   textLength |-> 0, projectId |-> 0, plan |-> "", status |-> "",
   tried |-> <<>>, outcome |-> "", pending |-> 0, wavLen |-> 0,
   wrote |-> "", resp |-> <<>>]

InFlight == BagToSet(reqs)

\* A handler is entered, moves on, or its response has been delivered.
Enter(r) ==
  /\ BagCardinality(reqs) < MaxInFlight
  /\ served < MaxRequests
  /\ served' = served + 1
  /\ reqs' = reqs (+) SetToBag({r})

Move(r, r2) ==
  /\ reqs' = (reqs (-) SetToBag({r})) (+) SetToBag({r2})
  /\ served' = served

\* res.status(...).json(...): the handler has answered.
Answer(r, status) ==
  [r EXCEPT !.pc = "done", !.status = status, !.pending = 0]

PendingGenerations ==
  LET open == {r \in InFlight : r.kind = "generate" /\ r.pc = "upstream"
                                /\ r.userId # PreviewUser}
      Count(r) == CopiesIn(r, reqs)
      RECURSIVE Sum(_)
      Sum(S) == IF S = {} THEN 0
                ELSE LET x == CHOOSE y \in S : TRUE
                     IN  Count(x) + Sum(S \ {x})
  IN  Sum(open)

\* A build that rejects a request that exactly fills the limit.
QuotaExceededAtLimit(userData, textLength) ==
  /\ IsNumber(userData.currentDailyLimit)
  /\ userData.dailyCharsUsed + textLength >= userData.currentDailyLimit

\* A build that compares the counter alone against the limit.
QuotaExceededNoAdd(userData, textLength) ==
  /\ IsNumber(userData.currentDailyLimit)
  /\ userData.dailyCharsUsed > userData.currentDailyLimit

\* userData.dailyCharsUsed + textLength > userData.currentDailyLimit; a
\* comparison with a limit that is no number is false.
QuotaExceeded(userData, textLength) ==
  /\ IsNumber(userData.currentDailyLimit)
  /\ userData.dailyCharsUsed + textLength > userData.currentDailyLimit

\* The body of the success response of /generate-tts:
\* <<dailyCharsUsed, currentDailyLimit, charsUsed>>
GenerateResponse(isPreview, userData) ==
  IF isPreview THEN <<0, PLAN_LIMITS("free"), 0>>
  ELSE <<userData.dailyCharsUsed, userData.currentDailyLimit,
         userData.charsUsed>>

\* POST /generate-tts with a missing parameter: 400.
GenerateInvalid(userId) ==
  /\ Enter(Answer(NewReq("generate", userId), "400"))
  /\ UNCHANGED <<now, limited, profiles, users, ttsProjects, nextId, enc>>

\* A build without the isPreview test: the preview user is looked up and
\* checked like any other.
GeneratePreviewChecked(body) ==
  /\ LET r == [NewReq("generate", PreviewUser) EXCEPT
                 !.textLen = body[1], !.textLength = body[2]]
         db == getUserData(users, PreviewUser,
                           persistentSubscription(PreviewUser),
                           persistentCharsUsed(PreviewUser))
     IN  /\ users' = db
         /\ Enter(IF QuotaExceeded(db[PreviewUser], r.textLength)
                  THEN Answer(r, "403")
                  ELSE [r EXCEPT !.pc = "upstream"])
  /\ UNCHANGED <<now, limited, profiles, ttsProjects, nextId, enc>>

\* POST /generate-tts of the preview user: straight to the upstream call.
GeneratePreview(body) ==
  /\ Enter([NewReq("generate", PreviewUser) EXCEPT
              !.pc = "upstream", !.textLen = body[1], !.textLength = body[2]])
  /\ UNCHANGED <<now, limited, profiles, users, ttsProjects, nextId, enc>>

\* POST /generate-tts of a user whose profile select fails: the throw is
\* outside the try block, so the handler ends without a response.
GenerateFetchError(userId) ==
  /\ Enter(Answer(NewReq("generate", userId), "unhandled"))
  /\ UNCHANGED <<now, limited, profiles, users, ttsProjects, nextId, enc>>

\* A build whose check reserves: an accepted request is charged at once.
GenerateCheckHold(userId, body) ==
  /\ nextId + PendingGenerations < MaxProjects
  /\ LET r == [NewReq("generate", userId) EXCEPT
                 !.textLen = body[1], !.textLength = body[2]]
         db == getUserData(users, userId, persistentSubscription(userId),
                           persistentCharsUsed(userId))
     IN  IF QuotaExceeded(db[userId], r.textLength)
         THEN users' = db /\ Enter(Answer(r, "403"))
         ELSE /\ users' = [db EXCEPT
                             ![userId].dailyCharsUsed = @ + r.textLength]
              /\ Enter([r EXCEPT !.pc = "upstream"])
  /\ UNCHANGED <<now, limited, profiles, ttsProjects, nextId, enc>>

\* POST /generate-tts of a user, to the upstream call: the profile select
\* returns, getUserData, then the quota check.
GenerateCheck(userId, body) ==
  /\ nextId + PendingGenerations < MaxProjects
  /\ LET r == [NewReq("generate", userId) EXCEPT
                 !.textLen = body[1], !.textLength = body[2]]
         db == getUserData(users, userId, persistentSubscription(userId),
                           persistentCharsUsed(userId))
     IN  /\ users' = db
         /\ Enter(IF QuotaExceeded(db[userId], r.textLength)
                  THEN Answer(r, "403")
                  ELSE [r EXCEPT !.pc = "upstream"])
  /\ UNCHANGED <<now, limited, profiles, ttsProjects, nextId, enc>>

\* The catch block: any throw inside the try answers 500.
GenerateFailed(r, outcome) ==
  [Answer(r, "500") EXCEPT !.outcome = outcome,
                           !.tried = Append(r.tried, API_KEY)]

\* A build that calls the provider again after a failed call.
GenerateCatchRetry(r, outcome) ==
  /\ Move(r, IF Len(r.tried) >= Len(Pool)
             THEN GenerateFailed(r, outcome)
             ELSE [r EXCEPT !.outcome = outcome,
                            !.tried = Append(r.tried, API_KEY)])
  /\ UNCHANGED <<users, ttsProjects, nextId>>

\* A build whose catch block still charges the request.
GenerateCatchCommit(r, outcome) ==
  /\ Move(r, GenerateFailed(r, outcome))
  /\ users' = IF r.userId = PreviewUser THEN users
              ELSE [users EXCEPT ![r.userId].dailyCharsUsed = @ + r.textLength,
                                 ![r.userId].charsUsed = @ + r.textLength]
  /\ UNCHANGED <<ttsProjects, nextId>>

\* The throw of generateContent, or of the missing-audio test, reaches the
\* catch block: one response, nothing else changes.
GenerateCatch(r, outcome) ==
  /\ Move(r, GenerateFailed(r, outcome))
  /\ UNCHANGED <<users, ttsProjects, nextId>>

\* The upstream call ends in a throw or in an answer without audio.
GenerateUpstreamFail(r) ==
  /\ r.kind = "generate" /\ r.pc = "upstream"
  /\ \E outcome \in UpstreamOutcomes(API_KEY) \ {"ok"} :
       GenerateCatch(r, outcome)
  /\ UNCHANGED <<now, limited, profiles, enc>>

\* A build that charges the request and forgets the history entry.
CommittedNoHistory(userData, projectId, r) ==
  [userData EXCEPT !.dailyCharsUsed = @ + r.textLength,
                   !.charsUsed = @ + r.textLength]

\* A build that charges the length of the text instead of textLength.
CommittedByText(userData, projectId, r) ==
  [userData EXCEPT !.history = Append(@, projectId),
                   !.dailyCharsUsed = @ + r.textLen,
                   !.charsUsed = @ + r.textLen]

\* history.push and the two `+= textLength`
Committed(userData, projectId, r) ==
  [userData EXCEPT !.history = Append(@, projectId),
                   !.dailyCharsUsed = @ + r.textLength,
                   !.charsUsed = @ + r.textLength]

\* The upstream call answers the preview user: wav assembly, response.
GeneratePreviewOk(r) ==
  /\ r.kind = "generate" /\ r.pc = "upstream" /\ r.userId = PreviewUser
  /\ "ok" \in UpstreamOutcomes(API_KEY)
  /\ \E pcm \in PcmSamples :
       Move(r, [Answer(r, "200") EXCEPT
                  !.outcome = "ok",
                  !.tried = Append(r.tried, API_KEY),
                  !.wavLen = Len(WavFile(btoa(pcm))),
                  !.resp = GenerateResponse(TRUE, <<>>)])
  /\ UNCHANGED <<now, limited, profiles, users, ttsProjects, nextId, enc>>

\* The upstream call answers a user: wav assembly, the project, the
\* history entry, both counters and the start of the profile update.
GenerateUpstreamOk(r) ==
  /\ r.kind = "generate" /\ r.pc = "upstream" /\ r.userId # PreviewUser
  /\ "ok" \in UpstreamOutcomes(API_KEY)
  /\ \E pcm \in PcmSamples :
       LET projectId == nextId + 1
           userData == Committed(users[r.userId], projectId, r)
       IN  /\ nextId' = projectId
           /\ ttsProjects' =
                [id \in DOMAIN ttsProjects \cup {projectId} |->
                   IF id = projectId
                   THEN [userId |-> r.userId, textLen |-> r.textLen,
                         textLength |-> r.textLength, createdAt |-> now]
                   ELSE ttsProjects[id]]
           /\ users' = [users EXCEPT ![r.userId] = userData]
           /\ Move(r, [r EXCEPT !.pc = "persist",
                                !.outcome = "ok",
                                !.tried = Append(r.tried, API_KEY),
                                !.wavLen = Len(WavFile(btoa(pcm))),
                                !.projectId = projectId,
                                !.pending = userData.charsUsed])
  /\ UNCHANGED <<now, limited, profiles, enc>>

\* A build that takes the increments back when the profile update failed.
GeneratePersistRollback(r, ok) ==
  /\ r.kind = "generate" /\ r.pc = "persist"
  /\ profiles' = IF ok THEN UpdateCharsUsed(profiles, r.userId, r.pending)
                 ELSE profiles
  /\ users' = IF ok THEN users
              ELSE [users EXCEPT
                      ![r.userId].dailyCharsUsed = @ - r.textLength,
                      ![r.userId].charsUsed = @ - r.textLength]
  /\ Move(r, [Answer(r, "200") EXCEPT
                !.wrote = IF ok THEN "ok" ELSE "failed",
                !.resp = GenerateResponse(FALSE, users'[r.userId])])
  /\ UNCHANGED <<now, limited, ttsProjects, nextId, enc>>

\* The profile update returns, with or without an error (an error is only
\* logged); then the response.
GeneratePersist(r, ok) ==
  /\ r.kind = "generate" /\ r.pc = "persist"
  /\ profiles' = IF ok THEN UpdateCharsUsed(profiles, r.userId, r.pending)
                 ELSE profiles
  /\ Move(r, [Answer(r, "200") EXCEPT
                !.wrote = IF ok THEN "ok" ELSE "failed",
                !.resp = GenerateResponse(FALSE, users[r.userId])])
  /\ UNCHANGED <<now, limited, users, ttsProjects, nextId, enc>>

Max(a, b) == IF a >= b THEN a ELSE b

\* DELETE /delete-tts/:projectId without a userId: 400.
DeleteInvalid(projectId) ==
  /\ Enter([Answer(NewReq("delete", ""), "400") EXCEPT
              !.projectId = projectId])
  /\ UNCHANGED <<now, limited, profiles, users, ttsProjects, nextId, enc>>

\* A build that looks the project up and does not compare its owner.
DeleteStartNoOwner(userId, projectId) ==
  /\ LET r == [NewReq("delete", userId) EXCEPT !.projectId = projectId]
     IN  Enter(IF projectId \notin DOMAIN ttsProjects
               THEN Answer(r, "404")
               ELSE [r EXCEPT !.pc = "fetch",
                              !.textLen = ttsProjects[projectId].textLen])
  /\ UNCHANGED <<now, limited, profiles, users, ttsProjects, nextId, enc>>

\* DELETE /delete-tts/:projectId, up to its first await: the project is
\* looked up and the handler keeps the object it found.
DeleteStart(userId, projectId) ==
  /\ LET r == [NewReq("delete", userId) EXCEPT !.projectId = projectId]
     IN  Enter(IF \/ projectId \notin DOMAIN ttsProjects
                  \/ ttsProjects[projectId].userId # userId
               THEN Answer(r, "404")
               ELSE [r EXCEPT !.pc = "fetch",
                              !.textLen = ttsProjects[projectId].textLen])
  /\ UNCHANGED <<now, limited, profiles, users, ttsProjects, nextId, enc>>

\* The profile select fails: 500.
DeleteFetchError(r) ==
  /\ r.kind = "delete" /\ r.pc = "fetch"
  /\ Move(r, Answer(r, "500"))
  /\ UNCHANGED <<now, limited, profiles, users, ttsProjects, nextId, enc>>

\* history.filter and the two Math.max(0, counter - textLength), where
\* textLength is projectToDelete.text.length
Released(userData, projectId, textLength) ==
  [userData EXCEPT
     !.history = SelectSeq(@, LAMBDA id : id # projectId),
     !.dailyCharsUsed = Max(0, @ - textLength),
     !.charsUsed = Max(0, @ - textLength)]

\* The profile select returns: getUserData, the project is deleted, the
\* counters are lowered and the profile update starts.
DeleteRelease(r) ==
  /\ r.kind = "delete" /\ r.pc = "fetch"
  /\ LET db == getUserData(users, r.userId, persistentSubscription(r.userId),
                           persistentCharsUsed(r.userId))
         userData == Released(db[r.userId], r.projectId, r.textLen)
     IN  /\ ttsProjects' = [id \in DOMAIN ttsProjects \ {r.projectId} |->
                              ttsProjects[id]]
         /\ users' = [db EXCEPT ![r.userId] = userData]
         /\ Move(r, [r EXCEPT !.pc = "persist",
                              !.pending = userData.charsUsed])
  /\ UNCHANGED <<now, limited, profiles, nextId, enc>>

\* The profile update returns (an error is only logged); then the response.
DeletePersist(r, ok) ==
  /\ r.kind = "delete" /\ r.pc = "persist"
  /\ profiles' = IF ok THEN UpdateCharsUsed(profiles, r.userId, r.pending)
                 ELSE profiles
  /\ Move(r, [Answer(r, "200") EXCEPT
                !.wrote = IF ok THEN "ok" ELSE "failed"])
  /\ UNCHANGED <<now, limited, users, ttsProjects, nextId, enc>>

\* GET /user-history: getUserData with its default arguments, then a read.
UserHistory(userId) ==
  /\ served < MaxRequests
  /\ served' = served + 1
  /\ users' = getUserData(users, userId, "free", 0)
  /\ UNCHANGED <<now, limited, profiles, ttsProjects, nextId, reqs, enc>>

\* GET /user-profile: the profile select returns, then getUserData.
UserProfile(userId) ==
  /\ served < MaxRequests
  /\ served' = served + 1
  /\ users' = getUserData(users, userId, persistentSubscription(userId),
                          persistentCharsUsed(userId))
  /\ UNCHANGED <<now, limited, profiles, ttsProjects, nextId, reqs, enc>>

\* POST /admin-update-user-plan without a userId or with a plan that
\* PLAN_LIMITS does not hold: 400.
AdminInvalid(userId, plan) ==
  /\ userId = "" \/ PLAN_LIMITS(plan) = Undefined
  /\ Enter([Answer(NewReq("admin", userId), "400") EXCEPT !.plan = plan])
  /\ UNCHANGED <<now, limited, profiles, users, ttsProjects, nextId, enc>>

\* POST /admin-update-user-plan: the update of profiles.subscription
\* returns; an error answers 500.
AdminUpdate(userId, plan, ok) ==
  /\ userId # "" /\ PLAN_LIMITS(plan) # Undefined
  /\ LET r == [NewReq("admin", userId) EXCEPT !.plan = plan]
     IN  IF ok
         THEN /\ profiles' =
                   IF userId \in DOMAIN profiles
                   THEN [profiles EXCEPT ![userId].subscription = plan]
                   ELSE profiles
              /\ Enter([r EXCEPT !.pc = "fetch"])
         ELSE /\ profiles' = profiles
              /\ Enter(Answer(r, "500"))
  /\ UNCHANGED <<now, limited, users, ttsProjects, nextId, enc>>

\* The select of chars_used fails: 500.
AdminFetchError(r) ==
  /\ r.kind = "admin" /\ r.pc = "fetch"
  /\ Move(r, Answer(r, "500"))
  /\ UNCHANGED <<now, limited, profiles, users, ttsProjects, nextId, enc>>

\* The select returns: getUserData with the new plan, then the daily
\* counter and the reset time are set anew.
AdminRespond(r) ==
  /\ r.kind = "admin" /\ r.pc = "fetch"
  /\ LET db == getUserData(users, r.userId, r.plan,
                           persistentCharsUsed(r.userId))
         userData == [db[r.userId] EXCEPT
                        !.dailyCharsUsed = 0,
                        !.dailyLimitResetTime = setHours0(nowInCAT)]
     IN  /\ users' = [db EXCEPT ![r.userId] = userData]
         /\ Move(r, Answer(r, "200"))
  /\ UNCHANGED <<now, limited, profiles, ttsProjects, nextId, enc>>

\* The client has its response; the handler is gone.
Retire(r) ==
  /\ r.pc = "done"
  /\ reqs' = reqs (-) SetToBag({r})
  /\ served' = served
  /\ UNCHANGED <<now, limited, profiles, users, ttsProjects, nextId, enc>>

\* The next midnight, of UTC or of the reference zone, after t
NextMidnight(t) ==
  IF setHours0(t) + TicksPerDay - CATOffset > t
  THEN setHours0(t) + TicksPerDay - CATOffset
  ELSE setHours0(t) + TicksPerDay

\* Time passes to the next midnight.
Tick ==
  /\ toDateString(NextMidnight(now) + CATOffset) <= MaxDays
  /\ now' = NextMidnight(now)
  /\ UNCHANGED <<limited, profiles, users, ttsProjects, nextId, reqs, served,
                 enc>>

\* ------------------------------------------------------------------------
\* Specification of the server
\* ------------------------------------------------------------------------
EmptyMap == [x \in {} |-> 0]

\* The encoder is not under test while the server runs.
EncIdle == [pcm |-> <<>>, base64Audio |-> <<>>, dataSize |-> 0,
            wavFile |-> <<>>, header |-> <<>>, headerInMemory |-> <<>>]

FreeRow == [subscription |-> "free", chars_used |-> 1000]
GoldRow == [subscription |-> "gold", chars_used |-> 0]

\* The profiles table at start-up: empty, or a row written before.
InitialProfiles ==
  {EmptyMap, [id \in {"u1"} |-> FreeRow], [id \in {"u1"} |-> GoldRow]}

\* Plans an admin request may name: one of the table, one that is no
\* member of PLAN_LIMITS, one that is an inherited member.
AdminPlans == {"starter", "gold", "constructor"}
ProjectIds == 1..MaxProjects

Init ==
  /\ now = 0
  /\ limited \in LimitedCases
  /\ profiles \in InitialProfiles
  /\ users = EmptyMap
  /\ ttsProjects = EmptyMap
  /\ nextId = 0
  /\ reqs = EmptyBag
  /\ served = 0
  /\ enc = EncIdle

Next ==
  \/ GenerateInvalid("u1")
  \/ \E body \in Bodies : GeneratePreview(body)
  \/ GenerateFetchError("u1")
  \/ \E body \in Bodies : GenerateCheck("u1", body)
  \/ \E r \in InFlight : GenerateUpstreamFail(r)
  \/ \E r \in InFlight : GeneratePreviewOk(r)
  \/ \E r \in InFlight : GenerateUpstreamOk(r)
  \/ \E r \in InFlight, ok \in BOOLEAN : GeneratePersist(r, ok)
  \/ DeleteInvalid(1)
  \/ \E userId \in Users, projectId \in ProjectIds :
       DeleteStart(userId, projectId)
  \/ \E r \in InFlight : DeleteFetchError(r)
  \/ \E r \in InFlight : DeleteRelease(r)
  \/ \E r \in InFlight, ok \in BOOLEAN : DeletePersist(r, ok)
  \/ UserHistory("u1")
  \/ UserProfile("u1")
  \/ \E plan \in AdminPlans : AdminInvalid("u1", plan)
  \/ \E plan \in AdminPlans, ok \in BOOLEAN : AdminUpdate("u1", plan, ok)
  \/ \E r \in InFlight : AdminFetchError(r)
  \/ \E r \in InFlight : AdminRespond(r)
  \/ \E r \in InFlight : Retire(r)
  \/ Tick

Spec == Init /\ [][Next]_vars


\* ------------------------------------------------------------------------
\* Specification of the encoder alone
\* ------------------------------------------------------------------------
ByteValues == {0, 127, 255}

RECURSIVE SeqsUpTo(_, _)
SeqsUpTo(S, n) ==
  IF n = 0 THEN {<<>>}
  ELSE LET shorter == SeqsUpTo(S, n - 1)
       IN  shorter \cup {Append(q, b) : q \in shorter, b \in S}

\* A payload of 1000 bytes, as in the scenario of the rotation test
LongPcm == [i \in 1..1000 |-> (i * 7) % 256]

PcmInputs == SeqsUpTo(ByteValues, MaxPcmLen) \cup {LongPcm}

\* Arguments of createWavHeader: every byte of the size fields is exercised
DataSizes == {0, 1, 255, 256, 1000, 65536, 16777731, 2147483611}

EncInit ==
  /\ now = 0
  /\ limited = {}
  /\ profiles = EmptyMap
  /\ users = EmptyMap
  /\ ttsProjects = EmptyMap
  /\ nextId = 0
  /\ reqs = EmptyBag
  /\ served = 0
  /\ \E pcm \in PcmInputs, dataSize \in DataSizes :
       enc = [EncIdle EXCEPT !.pcm = pcm, !.base64Audio = btoa(pcm),
                             !.dataSize = dataSize]

serverVars ==
  <<now, limited, profiles, users, ttsProjects, nextId, reqs, served>>

\* The provider's base64 text is assembled into a wav file.
AssembleWav ==
  /\ enc.wavFile = <<>>
  /\ enc' = [enc EXCEPT !.wavFile = WavFile(enc.base64Audio)]
  /\ UNCHANGED serverVars

CreateHeader ==
  /\ enc.header = <<>>
  /\ enc' = [enc EXCEPT !.header = createWavHeader(enc.dataSize)]
  /\ UNCHANGED serverVars

CreateHeaderInMemory ==
  /\ enc.headerInMemory = <<>>
  /\ enc' = [enc EXCEPT
               !.headerInMemory = createWavHeaderInMemory(enc.dataSize)]
  /\ UNCHANGED serverVars

EncNext == AssembleWav \/ CreateHeader \/ CreateHeaderInMemory

EncSpec == EncInit /\ [][EncNext]_vars

\* ------------------------------------------------------------------------
\* Properties of the encoder
\* ------------------------------------------------------------------------
\* Reading a container back: a little-endian 32-bit field, and the payload
\* that follows the header
getUint32(bytes, offset) ==
  bytes[offset + 1] + 256 * bytes[offset + 2] + 65536 * bytes[offset + 3]
    + 16777216 * bytes[offset + 4]

decode(container) == SubSeq(container, HeaderSize + 1, Len(container))

\* ------------------------------------------------------------------------
\* C8: the container is 44 + len(pcm) bytes long, its size field at bytes
\* 4..7 holds 36 + len(pcm), its data-length field at bytes 40..43 holds
\* len(pcm), both little-endian, and the bytes from 44 on are the payload.
\* ------------------------------------------------------------------------
C8_ContainerEncoding ==
  enc.wavFile # <<>> =>
    /\ Len(enc.wavFile) = 44 + Len(enc.pcm)
    /\ getUint32(enc.wavFile, 4) = 36 + Len(enc.pcm)
    /\ getUint32(enc.wavFile, 40) = Len(enc.pcm)
    /\ decode(enc.wavFile) = enc.pcm
    /\ \A i \in 1..Len(enc.pcm) : enc.wavFile[44 + i] = enc.pcm[i]

C8_Witness ==
  /\ enc.wavFile # <<>>
  /\ enc.pcm = LongPcm
  /\ Len(enc.wavFile) = 1044

\* ------------------------------------------------------------------------
\* C9: whatever dataSize is, the header of either server is 44 bytes with
\* 'RIFF' at 0, 'WAVE' at 8, 'fmt ' at 12, 16 at 16, PCM (1) at 20, one
\* channel at 22, 24000 Hz at 24, byte rate 48000 at 28, block align 2 at
\* 32, 16 bits at 34 and 'data' at 36: no write is undone by a later one.
\* ------------------------------------------------------------------------
HeaderLayout(h) ==
  /\ Len(h) = 44
  /\ SubSeq(h, 1, 4) = <<82, 73, 70, 70>>
  /\ SubSeq(h, 9, 12) = <<87, 65, 86, 69>>
  /\ SubSeq(h, 13, 16) = <<102, 109, 116, 32>>
  /\ SubSeq(h, 17, 20) = <<16, 0, 0, 0>>
  /\ SubSeq(h, 21, 22) = <<1, 0>>
  /\ SubSeq(h, 23, 24) = <<1, 0>>
  /\ SubSeq(h, 25, 28) = <<192, 93, 0, 0>>
  /\ SubSeq(h, 29, 32) = <<128, 187, 0, 0>>
  /\ SubSeq(h, 33, 34) = <<2, 0>>
  /\ SubSeq(h, 35, 36) = <<16, 0>>
  /\ SubSeq(h, 37, 40) = <<100, 97, 116, 97>>

C9_HeaderLayout ==
  /\ enc.header # <<>> => HeaderLayout(enc.header)
  /\ enc.headerInMemory # <<>> => HeaderLayout(enc.headerInMemory)

C9_Witness ==
  /\ enc.header # <<>>
  /\ enc.headerInMemory # <<>>
  /\ enc.dataSize = 16777731


\* ------------------------------------------------------------------------
\* Properties of the server
\* ------------------------------------------------------------------------
Generations == {r \in InFlight : r.kind = "generate"}

\* The handlers that enter with this step
Entering == {r \in BagToSet(reqs') : CopiesIn(r, reqs') > CopiesIn(r, reqs)}

NoDuplicates(seq) ==
  \A i, j \in DOMAIN seq : i # j => seq[i] # seq[j]

\* ------------------------------------------------------------------------
\* C1: when a user's request reaches the quota check with dailyCharsUsed +
\* textLength above the limit, it is answered 403 at once, and a request
\* answered 403 has made no upstream call.
\* ------------------------------------------------------------------------
C1_OverQuotaRejected ==
  /\ [][\A body \in Bodies :
          /\ GenerateCheck("u1", body)
          /\ IsNumber(users'["u1"].currentDailyLimit)
          /\ users'["u1"].dailyCharsUsed + body[2]
               > users'["u1"].currentDailyLimit
          => \A r \in Entering : /\ r.pc = "done"
                                 /\ r.status = "403"
                                 /\ r.tried = <<>>]_vars
  /\ [](\A r \in Generations :
          r.status = "403" => r.pc = "done" /\ r.tried = <<>>)

C1_Witness ==
  \E r \in Generations :
    /\ r.status = "403"
    /\ r.tried = <<>>
    /\ r.textLength = 100
    /\ users[r.userId].dailyCharsUsed = 650
    /\ users[r.userId].currentDailyLimit = 700

\* ------------------------------------------------------------------------
\* C2: in every state every user's dailyCharsUsed is at most the user's
\* currentDailyLimit, whatever the interleaving of the user's requests.
\* ------------------------------------------------------------------------
C2_DailyWithinCeiling ==
  \A u \in DOMAIN users :
    IsNumber(users[u].currentDailyLimit) =>
      users[u].dailyCharsUsed <= users[u].currentDailyLimit

\* ------------------------------------------------------------------------
\* C3: a call of getUserData on the reference day of dailyLimitResetTime
\* leaves dailyCharsUsed and dailyLimitResetTime alone; the first call after
\* the day has changed sets dailyCharsUsed to 0 and dailyLimitResetTime to
\* the start of the new reference day, and the request that made the call
\* is judged against the counter so reset.
\* ------------------------------------------------------------------------
IsQuotaCheck(u) ==
  \/ \E body \in Bodies : GenerateCheck(u, body)
  \/ UserProfile(u)
  \/ UserHistory(u)

C3_RolloverIdempotence ==
  [][\A u \in DOMAIN users :
       IsQuotaCheck(u) =>
         IF (now + CATOffset) \div TicksPerDay
              = users[u].dailyLimitResetTime \div TicksPerDay
         THEN /\ users'[u].dailyCharsUsed = users[u].dailyCharsUsed
              /\ users'[u].dailyLimitResetTime = users[u].dailyLimitResetTime
         ELSE /\ users'[u].dailyCharsUsed = 0
              /\ users'[u].dailyLimitResetTime
                   = ((now + CATOffset) \div TicksPerDay) * TicksPerDay
              /\ \A r \in Entering :
                   r.status = "403" =>
                     r.textLength > users'[u].currentDailyLimit]_vars

\* A record that was charged on day 0 and has been rolled over to day 1
C3_Witness ==
  /\ "u1" \in DOMAIN users
  /\ users["u1"].dailyCharsUsed = 0
  /\ users["u1"].dailyLimitResetTime = TicksPerDay
  /\ now + CATOffset = TicksPerDay
  /\ 1 \in DOMAIN ttsProjects
  /\ users["u1"].history = <<1>>

\* ------------------------------------------------------------------------
\* C4: when every credential of the pool is rate-limited, a generation
\* request makes exactly as many upstream attempts as the pool has
\* credentials and then answers with a failure.
\* ------------------------------------------------------------------------
C4_RotationTermination ==
  \A r \in Generations :
    /\ Len(r.tried) <= Len(Pool)
    /\ (limited = Range(Pool) /\ r.pc = "done" /\ r.tried # <<>>) =>
         r.status = "500" /\ Len(r.tried) = Len(Pool)

\* ------------------------------------------------------------------------
\* C5: whatever the provider answers, a generation request makes at most as
\* many upstream attempts as the pool has credentials, uses no credential
\* twice, and after its attempts it is answered or writes the profile and
\* is answered: it never waits for the provider again.
\* ------------------------------------------------------------------------
C5_BoundedAttempts ==
  \A r \in Generations :
    /\ Len(r.tried) <= Len(Pool)
    /\ NoDuplicates(r.tried)
    /\ r.tried # <<>> => r.pc \in {"persist", "done"}
    /\ (r.pc = "done" /\ r.tried # <<>>) => r.status \in {"200", "500"}
    /\ r.pc = "upstream" =>
         ENABLED (GenerateUpstreamFail(r) \/ GenerateUpstreamOk(r)
                    \/ GeneratePreviewOk(r))
    /\ r.pc = "persist" => ENABLED (\E ok \in BOOLEAN : GeneratePersist(r, ok))

\* A request that met a rate limit, next to one still at the provider
C5_Witness ==
  /\ limited = Range(Pool)
  /\ \E r \in Generations : r.outcome = "ratelimit" /\ r.status = "500"
                            /\ r.tried = <<API_KEY>>
  /\ \E r \in Generations : r.pc = "upstream"

\* ------------------------------------------------------------------------
\* C6: when every credential but the last is rate-limited and the last one
\* answers, a request tries the credentials in pool order once each, is
\* answered 200 with a container of 44 + len(pcm) bytes, and the server's
\* client ends up bound to the credential that answered.
\* ------------------------------------------------------------------------
C6_RotationCorrectness ==
  \A r \in Generations :
    (limited = Range(Pool) \ {Pool[Len(Pool)]} /\ r.pc = "done"
       /\ r.tried # <<>>) =>
      /\ r.tried = Pool
      /\ r.status = "200"
      /\ \E pcm \in PcmSamples : r.wavLen = 44 + Len(pcm)
      /\ r.tried[Len(r.tried)] = Pool[Len(Pool)]

\* ------------------------------------------------------------------------
\* C7: an upstream error that is no rate-limit signal ends the request at
\* once with a 500 after that single attempt: no counter, no project, no
\* project id and no profile row changes in that step.
\* ------------------------------------------------------------------------
C7_OtherErrorIsFinal ==
  /\ [][\A r \in Entering :
          r.outcome = "other" =>
            /\ r.pc = "done" /\ r.status = "500"
            /\ UNCHANGED <<users, ttsProjects, nextId, profiles>>]_vars
  /\ [](\A r \in Generations :
          r.outcome = "other" =>
            /\ r.pc = "done" /\ r.status = "500"
            /\ r.tried = <<API_KEY>>
            /\ r.projectId = 0)

C7_Witness ==
  \E r \in Generations :
    /\ r.outcome = "other" /\ r.status = "500" /\ r.userId = "u1"
    /\ users["u1"].dailyCharsUsed = 0
    /\ ttsProjects = EmptyMap

\* ------------------------------------------------------------------------
\* C10: the deletion of a project lowers its owner's dailyCharsUsed and
\* charsUsed by what its creation added, textLength, when the deletion
\* happens on the day of the record, the counters are at least textLength
\* and the profile row holds the charsUsed of the record.
\* ------------------------------------------------------------------------
C10_DeletionSymmetry ==
  [][\A p \in DOMAIN ttsProjects \ DOMAIN ttsProjects' :
       LET u == ttsProjects[p].userId
           L == ttsProjects[p].textLength
       IN  (/\ (now + CATOffset) \div TicksPerDay
                 = users[u].dailyLimitResetTime \div TicksPerDay
            /\ users[u].dailyCharsUsed >= L
            /\ users[u].charsUsed >= L
            /\ u \in DOMAIN profiles
            /\ profiles[u].chars_used = users[u].charsUsed
            /\ profiles[u].subscription = users[u].subscription)
           => /\ users'[u].dailyCharsUsed = users[u].dailyCharsUsed - L
              /\ users'[u].charsUsed = users[u].charsUsed - L]_vars

\* ------------------------------------------------------------------------
\* C11: in every state every user's dailyCharsUsed and charsUsed, and the
\* chars_used of every profile row, are at least 0, whatever textLength the
\* requests declared and whatever was deleted.
\* ------------------------------------------------------------------------
C11_CountersNonNegative ==
  /\ \A u \in DOMAIN users :
       users[u].dailyCharsUsed >= 0 /\ users[u].charsUsed >= 0
  /\ \A u \in DOMAIN profiles : profiles[u].chars_used >= 0

\* ------------------------------------------------------------------------
\* C12: a generation request whose upstream call throws, or answers without
\* audio, is answered 500 in a step that changes no counter, no project, no
\* project id and no profile row; a request holds a project only after the
\* upstream call answered and the container was built.
\* ------------------------------------------------------------------------
C12_NoCommitOnFailure ==
  /\ [][\A r \in Entering :
          (r.kind = "generate" /\ r.status = "500") =>
            UNCHANGED <<users, ttsProjects, nextId, profiles>>]_vars
  /\ [](\A r \in Generations :
          /\ r.outcome \in {"ratelimit", "other", "noaudio"} =>
               r.pc = "done" /\ r.status = "500" /\ r.projectId = 0
          /\ r.projectId # 0 =>
               /\ r.outcome = "ok"
               /\ \E pcm \in PcmSamples : r.wavLen = HeaderSize + Len(pcm))

C12_Witness ==
  \E r \in Generations :
    /\ r.outcome = "noaudio" /\ r.status = "500" /\ r.userId = "u1"
    /\ r.textLength = 100
    /\ users["u1"].dailyCharsUsed = 0
    /\ users["u1"].charsUsed = 1000
    /\ users["u1"].history = <<>>
    /\ nextId = 0

\* ------------------------------------------------------------------------
\* C13: when the profile update of a commit fails, the step that answers
\* the request leaves the usage records and the profile rows as they are
\* and answers 200 with the counters of the record, increments included.
\* ------------------------------------------------------------------------
C13_PersistFailureKeepsCommit ==
  [][\A r \in InFlight :
       (r.kind = "generate" /\ r.pc = "persist"
          /\ GeneratePersist(r, FALSE)) =>
         /\ users' = users
         /\ profiles' = profiles
         /\ \E r2 \in Entering :
              /\ r2.status = "200" /\ r2.wrote = "failed"
              /\ r2.resp = <<users[r.userId].dailyCharsUsed,
                             users[r.userId].currentDailyLimit,
                             users[r.userId].charsUsed>>]_vars

C13_Witness ==
  \E r \in Generations :
    /\ r.wrote = "failed" /\ r.status = "200" /\ r.userId = "u1"
    /\ r.resp = <<100, 700, 1100>>
    /\ users["u1"].dailyCharsUsed = 100
    /\ users["u1"].charsUsed = 1100
    /\ profiles["u1"].chars_used = 1000

\* ------------------------------------------------------------------------
\* C14: once a profile update of a commit has failed and the record still
\* holds the charsUsed the request reported, a later profile read or
\* generation check of that user leaves the record's charsUsed alone: it
\* is not replaced by the chars_used of the profile row.
\* ------------------------------------------------------------------------
C14_MemoryAuthoritative ==
  [][\A u \in DOMAIN users \cap DOMAIN profiles :
       (/\ \E r \in Generations :
             /\ r.userId = u /\ r.wrote = "failed" /\ r.textLength > 0
             /\ r.resp[3] = users[u].charsUsed
        /\ users[u].charsUsed # profiles[u].chars_used
        /\ \/ UserProfile(u)
           \/ \E body \in Bodies : GenerateCheck(u, body))
       => users'[u].charsUsed = users[u].charsUsed]_vars

\* ------------------------------------------------------------------------
\* C15: no step of a request of the preview user changes a usage record, a
\* project, the project ids or a profile row; the preview user has no usage
\* record, its requests are never answered 403, and their 200 responses
\* report dailyCharsUsed 0, currentDailyLimit 700 and charsUsed 0.
\* ------------------------------------------------------------------------
C15_PreviewBypass ==
  /\ [][\A r \in Entering :
          r.userId = PreviewUser =>
            UNCHANGED <<users, ttsProjects, nextId, profiles>>]_vars
  /\ [](/\ PreviewUser \notin DOMAIN users
        /\ \A r \in Generations :
             r.userId = PreviewUser =>
               /\ r.status # "403"
               /\ r.projectId = 0
               /\ r.status = "200" => r.resp = <<0, 700, 0>>)

C15_Witness ==
  /\ \E r \in Generations :
       /\ r.userId = PreviewUser /\ r.status = "200"
       /\ r.textLength = 650 /\ r.resp = <<0, 700, 0>>
  /\ "u1" \in DOMAIN users
  /\ users["u1"].dailyCharsUsed = 650

\* ------------------------------------------------------------------------
\* C16: a deletion request for a project that does not exist, or whose
\* userId is not the caller's, is answered 404 in a step that changes no
\* project, no usage record and no profile row; a project disappears only
\* in a step of a deletion request of its owner.
\* ------------------------------------------------------------------------
C16_DeletionOwnership ==
  [][/\ \A r \in Entering :
          (/\ r.kind = "delete" /\ served' = served + 1 /\ r.userId # ""
           /\ \/ r.projectId \notin DOMAIN ttsProjects
              \/ ttsProjects[r.projectId].userId # r.userId)
          => /\ r.pc = "done" /\ r.status = "404"
             /\ UNCHANGED <<users, ttsProjects, profiles>>
     /\ \A p \in DOMAIN ttsProjects \ DOMAIN ttsProjects' :
          \E r \in InFlight :
            /\ r.kind = "delete" /\ r.projectId = p
            /\ r.userId = ttsProjects[p].userId]_vars

C16_Witness ==
  /\ \E r \in InFlight :
       /\ r.kind = "delete" /\ r.userId = "u2" /\ r.projectId = 1
       /\ r.status = "404"
  /\ 1 \in DOMAIN ttsProjects
  /\ ttsProjects[1].userId = "u1"
  /\ users["u1"].history = <<1>>

\* The record of the user belongs to the current reference day.
SameDay(u) ==
  toDateString(nowInCAT) = toDateString(users[u].dailyLimitResetTime)

\* ------------------------------------------------------------------------
\* C17: on the reference day of the record, no step of a generation request
\* but its commit changes dailyCharsUsed: the check leaves it alone whether
\* it accepts or rejects (limit 700, 650 used, 100 asked: 403 and still
\* 650), and the commit adds textLength.
\* ------------------------------------------------------------------------
C17_CheckIsNotAHold ==
  [][\A r \in Entering :
       (r.kind = "generate" /\ r.userId \in DOMAIN users
          /\ SameDay(r.userId)) =>
         users'[r.userId].dailyCharsUsed =
           IF r.pc = "persist"
           THEN users[r.userId].dailyCharsUsed + r.textLength
           ELSE users[r.userId].dailyCharsUsed]_vars

C17_Witness ==
  /\ \E r \in Generations :
       /\ r.userId = "u1" /\ r.status = "403" /\ r.textLength = 100
  /\ users["u1"].dailyCharsUsed = 650
  /\ users["u1"].currentDailyLimit = 700
  /\ users["u1"].history = <<1>>
  /\ 1 \in DOMAIN ttsProjects
  /\ ttsProjects[1].textLength = 650

\* ------------------------------------------------------------------------
\* C18: the commit of a generation request never adds to a record whose
\* dailyLimitResetTime lies on another reference day than the current one:
\* such a record is rolled over first.
\* ------------------------------------------------------------------------
C18_RolloverBeforeCommit ==
  [][\A r \in Entering :
       (r.kind = "generate" /\ r.pc = "persist" /\ r.textLength > 0) =>
         SameDay(r.userId)]_vars

\* ------------------------------------------------------------------------
\* C19: the commit adds the request's textLength, and nothing else, to both
\* dailyCharsUsed and charsUsed, and the profile update that follows writes
\* the charsUsed so incremented to chars_used.
\* ------------------------------------------------------------------------
C19_CommitByDeclaredLength ==
  [][/\ \A r \in Entering :
          (r.kind = "generate" /\ r.pc = "persist") =>
            /\ users'[r.userId].dailyCharsUsed
                 = users[r.userId].dailyCharsUsed + r.textLength
            /\ users'[r.userId].charsUsed
                 = users[r.userId].charsUsed + r.textLength
            /\ r.pending = users[r.userId].charsUsed + r.textLength
     /\ \A r \in InFlight, r2 \in Entering :
          (/\ r.kind = "generate" /\ r.pc = "persist"
           /\ r2.kind = "generate" /\ r2.projectId = r.projectId
           /\ r2.wrote = "ok" /\ r.userId \in DOMAIN profiles)
          => profiles'[r.userId].chars_used = r.pending]_vars

C19_Witness ==
  /\ \E r \in Generations :
       /\ r.userId = "u1" /\ r.wrote = "ok" /\ r.status = "200"
       /\ r.textLen = 50 /\ r.textLength = 100
  /\ users["u1"].dailyCharsUsed = 100
  /\ users["u1"].charsUsed = 1100
  /\ profiles["u1"].chars_used = 1100

\* ------------------------------------------------------------------------
\* C20: when all that the server ever received are generation requests of
\* one user with a profile row, each answered 200 with its profile update
\* done, the record's charsUsed equals the initial chars_used plus the
\* textLength of every request: no increment is lost to a reload.
\* ------------------------------------------------------------------------
RECURSIVE SumTextLength(_)
SumTextLength(S) ==
  IF S = {} THEN 0
  ELSE LET r == CHOOSE x \in S : TRUE
       IN  r.textLength * CopiesIn(r, reqs) + SumTextLength(S \ {r})

C20_LifetimeTotal ==
  (/\ "u1" \in DOMAIN profiles
   /\ reqs # EmptyBag
   /\ served = BagCardinality(reqs)
   /\ \A r \in InFlight :
        /\ r.kind = "generate" /\ r.userId = "u1" /\ r.textLength > 0
        /\ r.pc = "done" /\ r.status = "200" /\ r.wrote = "ok")
  => \E p0 \in InitialProfiles :
       /\ "u1" \in DOMAIN p0
       /\ p0["u1"].subscription = profiles["u1"].subscription
       /\ users["u1"].charsUsed
            = p0["u1"].chars_used + SumTextLength(InFlight)

\* ------------------------------------------------------------------------
\* C21: in every state the currentDailyLimit of every usage record is one
\* of 700, 50000, 200000, 1500000, 5000000 and is the limit of the record's
\* subscription, whatever subscription the profile row holds.
\* ------------------------------------------------------------------------
C21_CeilingFromTable ==
  \A u \in DOMAIN users :
    /\ users[u].currentDailyLimit \in {700, 50000, 200000, 1500000, 5000000}
    /\ users[u].currentDailyLimit = PLAN_LIMITS(users[u].subscription)

\* ------------------------------------------------------------------------
\* C22: a user's request that reaches the quota check goes on to the
\* upstream call exactly when dailyCharsUsed + textLength is at most the
\* limit, a sum equal to the limit included; otherwise it is answered 403.
\* ------------------------------------------------------------------------
C22_ExactFillAccepted ==
  [][\A r \in Entering :
       (/\ r.kind = "generate" /\ served' = served + 1
        /\ r.userId \in DOMAIN users'
        /\ r.status \notin {"400", "unhandled"}
        /\ IsNumber(users'[r.userId].currentDailyLimit)) =>
         IF users'[r.userId].dailyCharsUsed + r.textLength
              <= users'[r.userId].currentDailyLimit
         THEN r.pc = "upstream" /\ r.status = ""
         ELSE r.pc = "done" /\ r.status = "403"]_vars

\* 650 used of 700, 50 asked: the request is at the provider
C22_Witness ==
  /\ \E r \in Generations :
       /\ r.userId = "u1" /\ r.pc = "upstream" /\ r.textLength = 50
  /\ users["u1"].dailyCharsUsed = 650
  /\ users["u1"].currentDailyLimit = 700

\* ------------------------------------------------------------------------
\* C23: in every state a project is in ttsProjects exactly when its id is
\* in the history of its owner; the step that stores a project is the step
\* that appends its id to the history and adds its textLength to both
\* counters of the owner, and every commit stores its project.
\* ------------------------------------------------------------------------
C23_ArtifactWithCommit ==
  /\ [](/\ \A p \in DOMAIN ttsProjects :
             /\ ttsProjects[p].userId \in DOMAIN users
             /\ p \in Range(users[ttsProjects[p].userId].history)
        /\ \A u \in DOMAIN users :
             \A p \in Range(users[u].history) :
               p \in DOMAIN ttsProjects /\ ttsProjects[p].userId = u)
  /\ [][/\ \A p \in DOMAIN ttsProjects' \ DOMAIN ttsProjects :
             LET u == ttsProjects'[p].userId
             IN  /\ users'[u].history = Append(users[u].history, p)
                 /\ users'[u].dailyCharsUsed
                      = users[u].dailyCharsUsed + ttsProjects'[p].textLength
                 /\ users'[u].charsUsed
                      = users[u].charsUsed + ttsProjects'[p].textLength
        /\ \A r \in Entering :
             (r.kind = "generate" /\ r.pc = "persist") =>
               r.projectId \in DOMAIN ttsProjects' \ DOMAIN ttsProjects]_vars

\* Two projects were created and the first one has been deleted.
C23_Witness ==
  /\ DOMAIN ttsProjects = {2}
  /\ "u1" \in DOMAIN users
  /\ users["u1"].history = <<2>>
  /\ nextId = 2

\* ------------------------------------------------------------------------
\* C24: a project is released at most once: a deletion request that comes
\* to lower the counters when its project is no longer stored (another
\* request has deleted it) lowers neither dailyCharsUsed nor charsUsed.
\* ------------------------------------------------------------------------
C24_ReleasedOnce ==
  [][\A r \in Entering :
       (/\ r.kind = "delete" /\ r.pc = "persist"
        /\ r.projectId \notin DOMAIN ttsProjects) =>
         /\ users'[r.userId].dailyCharsUsed >= users[r.userId].dailyCharsUsed
         /\ users'[r.userId].charsUsed >= users[r.userId].charsUsed]_vars

\* ------------------------------------------------------------------------
\* C25: a /user-history request of a user with a usage record leaves the
\* record's subscription, currentDailyLimit and charsUsed as they are, and
\* its dailyCharsUsed too on the reference day of the record.
\* ------------------------------------------------------------------------
C25_HistoryReadOnly ==
  [][\A u \in DOMAIN users :
       UserHistory(u) =>
         /\ users'[u].subscription = users[u].subscription
         /\ users'[u].currentDailyLimit = users[u].currentDailyLimit
         /\ users'[u].charsUsed = users[u].charsUsed
         /\ SameDay(u) =>
              users'[u].dailyCharsUsed = users[u].dailyCharsUsed]_vars

\* ------------------------------------------------------------------------
\* C26: dailyCharsUsed counts the projects of the current reference day:
\* the deletion of a project created on an earlier reference day does not
\* lower the dailyCharsUsed of the current day.
\* ------------------------------------------------------------------------
C26_DailyIsSumOfToday ==
  [][\A p \in DOMAIN ttsProjects \ DOMAIN ttsProjects' :
       LET u == ttsProjects[p].userId
       IN  (/\ toDateString(ttsProjects[p].createdAt + CATOffset)
                 < toDateString(nowInCAT)
            /\ SameDay(u)
            /\ ttsProjects[p].textLength = ttsProjects[p].textLen
            /\ users[u].dailyCharsUsed >= 0)
           => users'[u].dailyCharsUsed >= users[u].dailyCharsUsed]_vars

\* ------------------------------------------------------------------------
\* C27: no step of an admin request that names a plan outside the table
\* answers 200 or changes a usage record or a profile row; one that names a
\* plan of the table and is answered 200 leaves the record with that
\* subscription, its limit, dailyCharsUsed 0, dailyLimitResetTime at the
\* start of the current reference day and the chars_used of the profile
\* row as charsUsed.
\* ------------------------------------------------------------------------
C27_AdminPlanChange ==
  [][\A r \in Entering :
       /\ (r.kind = "admin" /\ r.plan \notin PlanNames) =>
            /\ r.status # "200"
            /\ UNCHANGED <<users, profiles>>
       /\ (r.kind = "admin" /\ r.status = "200") =>
            /\ r.plan \in PlanNames
            /\ users'[r.userId].subscription = r.plan
            /\ users'[r.userId].currentDailyLimit = PLAN_LIMITS(r.plan)
            /\ users'[r.userId].dailyCharsUsed = 0
            /\ users'[r.userId].dailyLimitResetTime = setHours0(nowInCAT)
            /\ users'[r.userId].charsUsed = persistentCharsUsed(r.userId)]_vars

====
